---- MODULE Spec2Model ----
(***************************************************************************)
(* Model of the forecasting pipeline of tradeDumpSupabase:                 *)
(*   stock_price_forecast.py          loader, four strategies, orchestrator *)
(*   store_forecasts_to_supabase.py   sink, first version                   *)
(*   store_forecasts_to_supabase_v2.py sink, second version                 *)
(*   fix_supabase_data.py             reload of the table from the files    *)
(*   daily_supabase_dump.py, dailyStockDump.py   daily dump of the bars     *)
(* Floating point values are modelled as exact rationals plus the IEEE     *)
(* specials inf, -inf and NaN that numpy produces on a division by zero.   *)
(* Timestamps are integers counting ticks, TicksPerDay ticks to the day.   *)
(***************************************************************************)
EXTENDS Integers, Sequences, FiniteSets, TLC

VARIABLES
    call,            \* strategy harness: arguments of the strategy call
    ret,             \* strategy harness: what the call returned
    forecast_stocks, \* the forecast_stocks table: a set of stored rows
    sink,            \* sink harness: the last two insert_forecast_data calls
    cleared,         \* sink harness: the last clear_old_forecasts call
    stock_prices,    \* the stock_prices table: a sequence of rows, in storage order
    loaded,          \* loader harness: the last fetch_historical_data call
    daily_stock_data, \* the folder of the daily dump: file name -> lines
    all_rows,        \* daily dump: the rows prepared for the table in this run
    downloads,       \* daily dump: the outcome of every download so far, in order
    pc,              \* orchestrator: position in the main block
    mi,              \* orchestrator: index into METHODS of the current method
    ti,              \* orchestrator: index into TICKERS of the current ticker
    all_forecasts,   \* orchestrator: method -> sequence of non-empty forecasts
    visited,         \* orchestrator: the (method, ticker) cells handed to generate_forecast
    crashed,         \* orchestrator: TRUE once an exception left the main block
    faults,          \* orchestrator: environment faults injected so far
    ARIMA_AVAILABLE,   \* orchestrator: statsmodels could be imported
    PROPHET_AVAILABLE, \* orchestrator: prophet could be imported
    library,         \* orchestrator: what the fitted third-party models forecast
    program,         \* the module run as a script
    env,             \* the environment variables that are set (and not empty)
    files,           \* the combined CSV files on disk: method -> file content
    written,         \* the methods whose combined file this run has written
    outcome,         \* orchestrator: whether each cell's forecast was empty
    events           \* the requests to the stores and the strategy calls, in order

stratVars == <<call, ret>>
sinkVars  == <<forecast_stocks, sink, cleared>>
dumpVars  == <<daily_stock_data, all_rows, downloads>>
loadVars  == <<stock_prices, loaded, daily_stock_data, all_rows, downloads>>
orchVars  == <<pc, mi, ti, all_forecasts, visited, crashed, faults,
               ARIMA_AVAILABLE, PROPHET_AVAILABLE, library,
               program, env, files, written, outcome, events>>
vars      == <<call, ret, forecast_stocks, sink, cleared, stock_prices, loaded,
               daily_stock_data, all_rows, downloads,
               pc, mi, ti, all_forecasts, visited, crashed, faults,
               ARIMA_AVAILABLE, PROPHET_AVAILABLE, library,
               program, env, files, written, outcome, events>>

----------------------------------------------------------------------------
(* Bounds of the model *)

MaxLen      == 16   \* longest input series
MaxClose    == 1    \* closes are drawn from 0..MaxClose
MaxDays     == 2    \* largest forecast horizon
Period      == 3    \* closes of an input series repeat with this period
TicksPerDay == 2    \* resolution of a timestamp within one day
MaxBatch    == 3    \* largest batch_size of the sink
MaxToday    == 1    \* latest calendar day a sink run takes place on
MaxBars     == 3    \* most rows of the stock_prices table in the loader harness
MaxFaults   == 1    \* most environment faults in one orchestrator run

(* Program constants *)

MinLinear  == 5
MinMA      == 5
MinArima   == 15
MinProphet == 10
TrendWindow == 10
LookbackDays == 90
Horizon == 7

----------------------------------------------------------------------------
(* Numbers: [kind, n, d].  kind "fin" is the rational n/d in lowest terms, *)
(* d > 0; "inf" carries its sign in n; "nan"; "none" is Python's None.     *)

Abs(x) == IF x < 0 THEN -x ELSE x

RECURSIVE GCD(_, _)
GCD(a, b) == IF b = 0 THEN a ELSE GCD(b, a % b)

Fin(n, d) ==
    LET s == IF d < 0 THEN -1 ELSE 1
        g == GCD(Abs(n), Abs(d))
    IN  [kind |-> "fin", n |-> (s * n) \div g, d |-> (s * d) \div g]

Whole(i)  == [kind |-> "fin", n |-> i, d |-> 1]
Inf(s)  == [kind |-> "inf", n |-> s, d |-> 0]
NaN     == [kind |-> "nan", n |-> 0, d |-> 0]
None    == [kind |-> "none", n |-> 0, d |-> 0]

Sign(x) == IF x.n > 0 THEN 1 ELSE IF x.n < 0 THEN -1 ELSE 0

FAdd(x, y) ==
    IF x.kind = "nan" \/ y.kind = "nan" THEN NaN
    ELSE IF x.kind = "inf" /\ y.kind = "inf"
         THEN (IF x.n = y.n THEN x ELSE NaN)
    ELSE IF x.kind = "inf" THEN x
    ELSE IF y.kind = "inf" THEN y
    ELSE Fin(x.n * y.d + y.n * x.d, x.d * y.d)

FNeg(x) == IF x.kind = "nan" THEN NaN ELSE [x EXCEPT !.n = -x.n]

FSub(x, y) == FAdd(x, FNeg(y))

FMul(x, y) ==
    IF x.kind = "nan" \/ y.kind = "nan" THEN NaN
    ELSE IF x.kind = "inf" \/ y.kind = "inf"
         THEN (IF Sign(x) * Sign(y) = 0 THEN NaN ELSE Inf(Sign(x) * Sign(y)))
    ELSE Fin(x.n * y.n, x.d * y.d)

(* numpy true division: x/0 is inf, -inf or NaN (a warning, never an error) *)
FDiv(x, y) ==
    IF x.kind = "nan" \/ y.kind = "nan" THEN NaN
    ELSE IF x.kind = "inf" /\ y.kind = "inf" THEN NaN
    ELSE IF x.kind = "inf"
         THEN Inf(IF y.n < 0 THEN -x.n ELSE x.n)
    ELSE IF y.kind = "inf" THEN Whole(0)
    ELSE IF y.n = 0
         THEN (IF x.n = 0 THEN NaN ELSE Inf(Sign(x)))
    ELSE Fin(x.n * y.d, x.d * y.n)

----------------------------------------------------------------------------
(* Data frames: [columns, rows].  pd.DataFrame() has neither.              *)

EmptyDF == [columns |-> {}, rows |-> <<>>]

IsEmpty(df) == df.rows = <<>>

BarColumns == {"timestamp", "symbol", "close"}

Bar(ts, sym, c) == [timestamp |-> ts, symbol |-> sym, close |-> c]

timedelta(days) == days * TicksPerDay

(* Position of row j in the order by timestamp; rows of equal timestamp   *)
(* keep their order                                                        *)
SortRank(s, j) ==
    1 + Cardinality({k \in 1..Len(s) :
                        \/ s[k].timestamp < s[j].timestamp
                        \/ (s[k].timestamp = s[j].timestamp /\ k < j)})

SortRows(s) ==
    LET rank == [j \in 1..Len(s) |-> SortRank(s, j)]
    IN  [i \in 1..Len(s) |-> s[CHOOSE j \in 1..Len(s) : rank[j] = i]]

sort_valuesSkipped(df) == df

(* df.sort_values("timestamp") *)
sort_values(df) == [df EXCEPT !.rows = SortRows(df.rows)]

head(df, n) ==
    LET len == Len(df.rows)
    IN  [df EXCEPT !.rows = SubSeq(df.rows, 1, (IF n >= len THEN len ELSE n))]

(* df.tail(n) for n >= 0 *)
tail(df, n) ==
    LET len == Len(df.rows)
    IN  [df EXCEPT !.rows = SubSeq(df.rows, (IF n >= len THEN 1 ELSE len - n + 1), len)]

Range(s) == {s[i] : i \in 1..Len(s)}

RECURSIVE SumTo(_, _)
SumTo(f, n) == IF n = 0 THEN 0 ELSE f[n] + SumTo(f, n - 1)

----------------------------------------------------------------------------
(* What a strategy call did: the frame it returned, whether an exception   *)
(* left the function, and which of its return statements was taken.       *)

Return(df, why) == [df |-> df, raised |-> FALSE, why |-> why]

(* Outcome of the statements inside a try block *)
Raise    == [exc |-> TRUE,  df |-> EmptyDF]
Value(df) == [exc |-> FALSE, df |-> df]

(* try: ... return forecast_df / except Exception: return pd.DataFrame() *)
TryExceptLeaks(body) ==
    IF body.exc THEN [df |-> EmptyDF, raised |-> TRUE, why |-> "raised"]
    ELSE Return(body.df, "ok")

TryExcept(body) ==
    IF body.exc THEN Return(EmptyDF, "caught") ELSE Return(body.df, "ok")

(* df.empty or len(df) < minimum *)
TooShortInclusive(df, minimum) == IsEmpty(df) \/ Len(df.rows) <= minimum

TooShort(df, minimum) == IsEmpty(df) \/ Len(df.rows) < minimum

Faults == {"none", "prepare", "fit", "predict"}

PlainColumns == {"timestamp", "symbol", "predicted_close", "forecast_day",
                 "price_change", "price_change_pct"}

BoundColumnsOmitted == PlainColumns

BoundColumns == PlainColumns \cup {"lower_bound", "upper_bound"}

Point(ts, sym, pred, day, lo, hi) ==
    [timestamp |-> ts, symbol |-> sym, predicted_close |-> pred,
     forecast_day |-> day, lower_bound |-> lo, upper_bound |-> hi,
     price_change |-> None, price_change_pct |-> None]

(* forecast_df["price_change"] = predicted_close - last_price              *)
(* forecast_df["price_change_pct"] = (price_change / last_price) * 100     *)
AddChangeSwapped(row, last_price) ==
    [row EXCEPT
       !.price_change = FSub(last_price, row.predicted_close),
       !.price_change_pct =
           FMul(FDiv(FSub(last_price, row.predicted_close), last_price), Whole(100))]

AddChange(row, last_price) ==
    [row EXCEPT
       !.price_change = FSub(row.predicted_close, last_price),
       !.price_change_pct =
           FMul(FDiv(FSub(row.predicted_close, last_price), last_price), Whole(100))]

ForecastDaysZeroBased(days) == IF days <= 0 THEN <<>> ELSE [i \in 1..days |-> i - 1]

(* [i+1 for i in range(days)]: empty when days <= 0 *)
ForecastDays(days) == IF days <= 0 THEN <<>> ELSE [i \in 1..days |-> i]

Closes(rows) == [i \in 1..Len(rows) |-> rows[i].close]

OLSPredictNoIntercept(y, x) ==
    LET n   == Len(y)
        Sx  == SumTo([i \in 1..n |-> i - 1], n)
        Sxx == SumTo([i \in 1..n |-> (i - 1) * (i - 1)], n)
        Sy  == SumTo(y, n)
        Sxy == SumTo([i \in 1..n |-> (i - 1) * y[i]], n)
    IN  Fin((n * Sxy - Sx * Sy) * x, n * Sxx - Sx * Sx)

(* LinearRegression().fit(X, y).predict(x) with X = 0..n-1: ordinary least *)
(* squares, intercept + slope * x                                          *)
OLSPredict(y, x) ==
    LET n   == Len(y)
        Sx  == SumTo([i \in 1..n |-> i - 1], n)
        Sxx == SumTo([i \in 1..n |-> (i - 1) * (i - 1)], n)
        Sy  == SumTo(y, n)
        Sxy == SumTo([i \in 1..n |-> (i - 1) * y[i]], n)
        D   == n * Sxx - Sx * Sx
        N   == n * Sxy - Sx * Sy
    IN  Fin(Sy * D - N * Sx + N * n * x, n * D)

LinearBody(df, symbol, days, fault) ==
    IF fault # "none" THEN Raise
    ELSE
    LET sorted    == sort_values(df).rows
        y         == Closes(sorted)
        n         == Len(y)
        last_date == sorted[n].timestamp
        last_price == Whole(y[n])
    IN  \* model.predict raises on an array of 0 samples
        IF days <= 0 THEN Raise
        ELSE Value([columns |-> PlainColumns,
                    rows |-> [k \in 1..days |->
                        AddChange(Point(last_date + timedelta(k), symbol,
                                        OLSPredict(y, n - 1 + k),
                                        ForecastDays(days)[k], None, None),
                                  last_price)]])

forecast_linear_regression(df, symbol, days, fault) ==
    IF TooShort(df, MinLinear) THEN Return(EmptyDF, "short")
    ELSE TryExcept(LinearBody(df, symbol, days, fault))

TrendPerInterval(prices) ==
    LET n == Len(prices)
        w == IF TrendWindow < n THEN TrendWindow ELSE n
    IN  Fin(prices[n] - prices[n - w + 1], w - 1)

(* recent_prices = prices[-min(10, len(prices)):]                          *)
(* trend = (recent_prices[-1] - recent_prices[0]) / len(recent_prices)     *)
Trend(prices) ==
    LET n == Len(prices)
        w == IF TrendWindow < n THEN TrendWindow ELSE n
    IN  Fin(prices[n] - prices[n - w + 1], w)

MovingAverageBodyNoBaseline(df, symbol, days, fault) ==
    IF fault = "prepare" THEN Raise
    ELSE
    LET sorted     == sort_values(df).rows
        prices     == Closes(sorted)
        n          == Len(prices)
        w          == IF TrendWindow < n THEN TrendWindow ELSE n
        trend      == Fin(prices[n], w)
        last_date  == sorted[n].timestamp
        last_price == Whole(prices[n])
    IN  IF days <= 0 THEN Value(EmptyDF)
        ELSE Value([columns |-> PlainColumns,
                    rows |-> [k \in 1..days |->
                        AddChange(Point(last_date + timedelta(k), symbol,
                                        FAdd(last_price, FMul(trend, Whole(k))),
                                        k, None, None),
                                  last_price)]])

MovingAverageBody(df, symbol, days, fault) ==
    IF fault = "prepare" THEN Raise
    ELSE
    LET sorted     == sort_values(df).rows
        prices     == Closes(sorted)
        n          == Len(prices)
        trend      == Trend(prices)
        last_date  == sorted[n].timestamp
        last_price == Whole(prices[n])
    IN  \* pd.DataFrame([]) is the empty frame
        IF days <= 0 THEN Value(EmptyDF)
        ELSE Value([columns |-> PlainColumns,
                    rows |-> [k \in 1..days |->
                        AddChange(Point(last_date + timedelta(k), symbol,
                                        FAdd(last_price, FMul(trend, Whole(k))),
                                        k, None, None),
                                  last_price)]])

forecast_moving_average(df, symbol, days, fault) ==
    IF TooShort(df, MinMA) THEN Return(EmptyDF, "short")
    ELSE TryExcept(MovingAverageBody(df, symbol, days, fault))

(* What the fitted third-party model forecasts for step k: its mean and    *)
(* its 95% interval.  lib = [base, drift] stands for the fitted model.     *)
LibMean(lib, k)  == Whole(lib.base + lib.drift * k)
LibLower(lib, k) == Whole(lib.base + lib.drift * k - k)
LibUpper(lib, k) == Whole(lib.base + lib.drift * k + k)

ArimaBody(df, symbol, days, fault, lib) ==
    IF fault # "none" THEN Raise
    ELSE
    LET sorted     == sort_values(df).rows
        prices     == Closes(sorted)
        n          == Len(prices)
        last_date  == sorted[n].timestamp
        last_price == Whole(prices[n])
    IN  \* get_forecast(steps) needs steps >= 1
        IF days <= 0 THEN Raise
        ELSE Value([columns |-> BoundColumns,
                    rows |-> [k \in 1..days |->
                        AddChange(Point(last_date + timedelta(k), symbol,
                                        LibMean(lib, k), ForecastDays(days)[k],
                                        LibLower(lib, k), LibUpper(lib, k)),
                                  last_price)]])

forecast_arima(df, symbol, days, fault, lib, available) ==
    IF ~available THEN Return(EmptyDF, "unavailable")
    ELSE IF TooShort(df, MinArima) THEN Return(EmptyDF, "short")
    ELSE TryExcept(ArimaBody(df, symbol, days, fault, lib))

ProphetBody(df, symbol, days, fault, lib) ==
    IF fault # "none" THEN Raise
    ELSE
    LET df_prophet == sort_values(df).rows
        n          == Len(df_prophet)
        last_ds    == df_prophet[n].timestamp
        last_price == Whole(df_prophet[n].close)
    IN  \* forecast.tail(days) against range(days): the lengths differ for days < 0
        IF days < 0 THEN Raise
        ELSE IF days = 0 THEN Value([columns |-> BoundColumns, rows |-> <<>>])
        ELSE Value([columns |-> BoundColumns,
                    rows |-> [k \in 1..days |->
                        AddChange(Point(last_ds + timedelta(k), symbol,
                                        LibMean(lib, k), ForecastDays(days)[k],
                                        LibLower(lib, k), LibUpper(lib, k)),
                                  last_price)]])

forecast_prophet(df, symbol, days, fault, lib, available) ==
    IF ~available THEN Return(EmptyDF, "unavailable")
    ELSE IF TooShort(df, MinProphet) THEN Return(EmptyDF, "short")
    ELSE TryExcept(ProphetBody(df, symbol, days, fault, lib))

----------------------------------------------------------------------------
(* Harness of the strategies: one call of one strategy on an input series,  *)
(* a horizon, a fault of the environment and an outcome of the library.    *)

Reverse(s) == [i \in 1..Len(s) |-> s[Len(s) + 1 - i]]

(* n daily bars of one symbol, oldest first; closes repeat pat *)
SeriesRows(n, pat, sym) ==
    [t \in 1..n |-> Bar(timedelta(t), sym, pat[((t - 1) % Period) + 1])]

(* n daily bars of one symbol, oldest first; the close at index t of       *)
(* 0..n-1 is a*t + b                                                       *)
LinearRows(n, a, b, sym) == [t \in 1..n |-> Bar(timedelta(t), sym, a * (t - 1) + b)]

(* Twenty days closing at 100, 101, ..., 119 *)
ScenarioFrame == [columns |-> BarColumns, rows |-> LinearRows(20, 1, 100, "AAPL")]

LinearFrames ==
    { [columns |-> BarColumns, rows |-> rows] :
        rows \in UNION { {LinearRows(n, ab[1], ab[2], "AAPL"),
                          Reverse(LinearRows(n, ab[1], ab[2], "AAPL"))} :
                            n \in MinLinear..MaxLen,
                            ab \in {<<1, 0>>, <<2, 1>>, <<1, 100>>, <<-1, 100>>} } }
    \cup {ScenarioFrame}

InputFrames ==
    { [columns |-> BarColumns, rows |-> rows] :
        rows \in UNION { {SeriesRows(n, pat, "AAPL"), Reverse(SeriesRows(n, pat, "AAPL"))} :
                            n \in 1..MaxLen, pat \in [1..Period -> 0..MaxClose] } }
    \cup {EmptyDF}
    \cup LinearFrames

LibOutcomes == {[base |-> MaxClose, drift |-> 1], [base |-> 0, drift |-> -1]}

Horizons == (-1)..MaxDays

NoCall ==
    [method |-> "none", days |-> 0, fault |-> "none",
     lib |-> [base |-> 0, drift |-> -1], available |-> TRUE]

NoRet == [df |-> EmptyDF, raised |-> FALSE, why |-> "pending"]

IdleStrategy == call = [NoCall EXCEPT !.method = "idle"] /\ ret = NoRet
IdleSink     == forecast_stocks = {} /\ sink = <<>> /\ cleared = <<>>
IdleDump     == daily_stock_data = <<>> /\ all_rows = <<>> /\ downloads = <<>>
IdleLoad     == stock_prices = <<>> /\ loaded = <<>> /\ IdleDump
IdleOrch     == /\ pc = "idle" /\ mi = 0 /\ ti = 0 /\ all_forecasts = <<>>
                /\ visited = {} /\ crashed = FALSE /\ faults = 0
                /\ ARIMA_AVAILABLE = TRUE /\ PROPHET_AVAILABLE = TRUE
                /\ library = NoCall.lib
                /\ program = "none" /\ env = {} /\ files = <<>> /\ written = {}
                /\ outcome = {} /\ events = <<>>

StrategyInit ==
    /\ \E df \in InputFrames :
          call = [df |-> df, symbol |-> "AAPL", method |-> "none", days |-> 0,
                  fault |-> "none", lib |-> NoCall.lib, available |-> TRUE]
    /\ ret = NoRet
    /\ IdleSink /\ IdleLoad /\ IdleOrch

CallLinear ==
    /\ call.method = "none"
    /\ \E days \in Horizons \cup {5}, fault \in Faults :
          /\ call' = [call EXCEPT !.method = "linear", !.days = days, !.fault = fault]
          /\ ret'  = forecast_linear_regression(call.df, call.symbol, days, fault)
    /\ UNCHANGED <<sinkVars, loadVars, orchVars>>

CallMovingAverage ==
    /\ call.method = "none"
    /\ \E days \in Horizons, fault \in Faults :
          /\ call' = [call EXCEPT !.method = "moving_average", !.days = days,
                                  !.fault = fault]
          /\ ret'  = forecast_moving_average(call.df, call.symbol, days, fault)
    /\ UNCHANGED <<sinkVars, loadVars, orchVars>>

CallArima ==
    /\ call.method = "none"
    /\ \E days \in Horizons, fault \in Faults, lib \in LibOutcomes, avail \in BOOLEAN :
          /\ avail \/ (fault = "none" /\ lib = NoCall.lib)
          /\ call' = [call EXCEPT !.method = "arima", !.days = days, !.fault = fault,
                                  !.lib = lib, !.available = avail]
          /\ ret'  = forecast_arima(call.df, call.symbol, days, fault, lib, avail)
    /\ UNCHANGED <<sinkVars, loadVars, orchVars>>

CallProphet ==
    /\ call.method = "none"
    /\ \E days \in Horizons, fault \in Faults, lib \in LibOutcomes, avail \in BOOLEAN :
          /\ avail \/ (fault = "none" /\ lib = NoCall.lib)
          /\ call' = [call EXCEPT !.method = "prophet", !.days = days, !.fault = fault,
                                  !.lib = lib, !.available = avail]
          /\ ret'  = forecast_prophet(call.df, call.symbol, days, fault, lib, avail)
    /\ UNCHANGED <<sinkVars, loadVars, orchVars>>

StrategyNext == CallLinear \/ CallMovingAverage \/ CallArima \/ CallProphet

SpecStrategy == StrategyInit /\ [][StrategyNext]_vars

Called == call.method \in {"linear", "moving_average", "arima", "prophet"}

(* The close of the bar with the latest timestamp of a non-empty frame *)
LatestClose(df) ==
    (CHOOSE r \in Range(df.rows) :
        \A q \in Range(df.rows) : q.timestamp <= r.timestamp).close

----------------------------------------------------------------------------
(* C1: every strategy returns an empty result or exactly `horizon` rows    *)
(* whose forecast_day values are 1, 2, ..., horizon in that order.         *)
C1_HorizonRows ==
    Called =>
       \/ IsEmpty(ret.df)
       \/ /\ Len(ret.df.rows) = call.days
          /\ \A i \in 1..Len(ret.df.rows) : ret.df.rows[i].forecast_day = i

C1_Witness ==
    /\ call.method = "linear"
    /\ call.days = MaxDays
    /\ Len(ret.df.rows) = MaxDays
    /\ ret.df.rows[MaxDays].forecast_day = MaxDays

(* C3: a series shorter than the method's minimum (linear 5, moving        *)
(* average 5, prophet 10, arima 15) gives an empty result and no           *)
(* exception; a series of exactly the minimum is not rejected for length.  *)
C3_Minimum(method) ==
    CASE method = "linear" -> 5
      [] method = "moving_average" -> 5
      [] method = "prophet" -> 10
      [] method = "arima" -> 15

C3_ShortIsEmpty ==
    Called =>
       /\ Len(call.df.rows) < C3_Minimum(call.method)
             => IsEmpty(ret.df) /\ ~ret.raised /\ ret.why \in {"short", "unavailable"}
       /\ Len(call.df.rows) >= C3_Minimum(call.method) => ret.why # "short"

C3_Witness ==
    /\ call.method = "arima"
    /\ call.available
    /\ Len(call.df.rows) = 14
    /\ ret.why = "short"
    /\ IsEmpty(ret.df)

(* C4: in every non-empty result price_change = predicted_close -          *)
(* last_close and price_change_pct = price_change / last_close * 100,      *)
(* last_close being the close of the latest bar of the input, sorted or    *)
(* not.  With last_close = 0 the quotient is no finite number.             *)
C4_ChangeFromLastClose ==
    (Called /\ ~IsEmpty(ret.df)) =>
       LET last == LatestClose(call.df)
       IN  \A i \in 1..Len(ret.df.rows) :
              LET r == ret.df.rows[i]
              IN  /\ r.price_change.kind = "fin"
                  /\ r.price_change.n * r.predicted_close.d
                        = (r.predicted_close.n - last * r.predicted_close.d)
                             * r.price_change.d
                  /\ last # 0 =>
                        /\ r.price_change_pct.kind = "fin"
                        /\ r.price_change_pct.n * last * r.price_change.d
                              = 100 * r.price_change.n * r.price_change_pct.d
                  /\ last = 0 => r.price_change_pct.kind \in {"inf", "nan"}

C4_Witness ==
    /\ Called
    /\ ~IsEmpty(ret.df)
    /\ call.df.rows # SortRows(call.df.rows)
    /\ LatestClose(call.df) # 0
    /\ call.df.rows[Len(call.df.rows)].close # LatestClose(call.df)
    /\ ret.df.rows[1].price_change.n # 0

(* C6: a failure raised while a strategy prepares data, fits or predicts   *)
(* is caught inside the strategy and turned into an empty result; no       *)
(* exception leaves a strategy.                                            *)
C6_Stages(method) ==
    IF method = "moving_average" THEN {"prepare"} ELSE {"prepare", "fit", "predict"}

C6_FailuresContained ==
    Called =>
       /\ ~ret.raised
       /\ (call.fault \in C6_Stages(call.method) /\ ret.why \notin {"short", "unavailable"})
             => ret.why = "caught" /\ IsEmpty(ret.df)

C6_Witness ==
    /\ call.method = "prophet"
    /\ call.fault = "fit"
    /\ Len(call.df.rows) >= 10
    /\ ret.why = "caught"
    /\ IsEmpty(ret.df)

(* C9: when the last close is exactly zero, every point of a non-empty     *)
(* linear or moving_average result has an undefined (null/NaN)             *)
(* price_change_pct, never an infinite or finite one, and nothing raises.  *)
C9_ZeroLastClose ==
    (/\ call.method \in {"linear", "moving_average"}
     /\ ~IsEmpty(ret.df)
     /\ LatestClose(call.df) = 0)
       => /\ ~ret.raised
          /\ \A i \in 1..Len(ret.df.rows) :
                ret.df.rows[i].price_change_pct.kind \in {"nan", "none"}

(* The close of the bar of day t of a series of daily bars *)
CloseAt(df, t) == (CHOOSE r \in Range(df.rows) : r.timestamp = timedelta(t)).close

(* C17: on a series of at least 5 bars with close[t] = a*t + b the linear  *)
(* strategy predicts a*(n-1+k) + b for forecast day k, with price_change   *)
(* a*k; closes 100..119 and horizon 5 give 120, ..., 124 and 1, ..., 5.    *)
C17_LinearReproducesLine ==
    (call.method = "linear" /\ Len(call.df.rows) >= 5
       /\ call.days >= 1 /\ call.fault = "none") =>
       LET n == Len(call.df.rows)
           b == CloseAt(call.df, 1)
           a == CloseAt(call.df, 2) - b
       IN  /\ (\A t \in 1..n : CloseAt(call.df, t) = a * (t - 1) + b) =>
                 /\ Len(ret.df.rows) = call.days
                 /\ \A k \in 1..Len(ret.df.rows) :
                       /\ ret.df.rows[k].predicted_close = Whole(a * (n - 1 + k) + b)
                       /\ ret.df.rows[k].price_change = Whole(a * k)
           /\ (call.df = ScenarioFrame /\ call.days = 5) =>
                 /\ [k \in 1..5 |-> ret.df.rows[k].predicted_close]
                       = <<Whole(120), Whole(121), Whole(122), Whole(123), Whole(124)>>
                 /\ [k \in 1..5 |-> ret.df.rows[k].price_change]
                       = <<Whole(1), Whole(2), Whole(3), Whole(4), Whole(5)>>

C17_Witness ==
    /\ call.method = "linear"
    /\ call.df = ScenarioFrame
    /\ call.days = 5
    /\ call.fault = "none"
    /\ Len(ret.df.rows) = 5
    /\ ret.df.rows[5].predicted_close = Whole(124)

(* C18: on a constant-price series of at least 5 bars every point of the   *)
(* moving_average forecast has predicted_close equal to the constant and   *)
(* price_change 0.                                                         *)
C18_ConstantStaysConstant ==
    (call.method = "moving_average" /\ Len(call.df.rows) >= 5
       /\ call.days >= 1 /\ call.fault # "prepare"
       /\ \A r \in Range(call.df.rows) : r.close = call.df.rows[1].close) =>
       /\ Len(ret.df.rows) = call.days
       /\ \A k \in 1..Len(ret.df.rows) :
             /\ ret.df.rows[k].predicted_close = Whole(call.df.rows[1].close)
             /\ ret.df.rows[k].price_change = Whole(0)

C18_Witness ==
    /\ call.method = "moving_average"
    /\ Len(call.df.rows) = TrendWindow + 1
    /\ \A r \in Range(call.df.rows) : r.close = 1
    /\ call.days = MaxDays
    /\ Len(ret.df.rows) = MaxDays
    /\ ret.df.rows[MaxDays].predicted_close = Whole(1)

(* The latest timestamp of a non-empty frame *)
LatestTimestamp(df) ==
    CHOOSE t \in {r.timestamp : r \in Range(df.rows)} :
        \A r \in Range(df.rows) : r.timestamp <= t

(* C21: in every non-empty result of every strategy the point with         *)
(* forecast_day k has the latest timestamp of the input plus exactly k     *)
(* whole days: the first point is one day after the last known bar and     *)
(* consecutive points are one day apart.                                   *)
C21_DailyTimestamps ==
    (Called /\ ~IsEmpty(ret.df)) =>
       LET rows == ret.df.rows
           last == LatestTimestamp(call.df)
       IN  /\ \A i \in 1..Len(rows) :
                 rows[i].timestamp = last + rows[i].forecast_day * TicksPerDay
           /\ rows[1].timestamp - last = TicksPerDay
           /\ \A i \in 1..(Len(rows) - 1) :
                 rows[i + 1].timestamp - rows[i].timestamp = TicksPerDay

C21_Witness ==
    /\ call.method = "prophet"
    /\ call.df.rows # SortRows(call.df.rows)
    /\ call.df.rows[Len(call.df.rows)].timestamp # LatestTimestamp(call.df)
    /\ call.days = MaxDays
    /\ Len(ret.df.rows) = MaxDays
    /\ ret.df.rows[MaxDays].timestamp
          = LatestTimestamp(call.df) + MaxDays * TicksPerDay

(* C22: a non-empty result has the lower_bound and upper_bound columns     *)
(* exactly when its method is arima or prophet; a linear or moving_average *)
(* result has neither.                                                     *)
C22_BoundsOnlyForIntervalMethods ==
    (Called /\ ~IsEmpty(ret.df)) =>
       /\ call.method \in {"arima", "prophet"}
             => {"lower_bound", "upper_bound"} \subseteq ret.df.columns
       /\ call.method \in {"linear", "moving_average"}
             => {"lower_bound", "upper_bound"} \cap ret.df.columns = {}

C22_Witness ==
    /\ call.method = "arima"
    /\ ~IsEmpty(ret.df)
    /\ "upper_bound" \in ret.df.columns
    /\ ret.df.rows[1].upper_bound.kind = "fin"
    /\ ret.df.rows[1].lower_bound # ret.df.rows[1].upper_bound

----------------------------------------------------------------------------
(* The sink: insert_forecast_data of store_forecasts_to_supabase.py ("v1")  *)
(* and of store_forecasts_to_supabase_v2.py ("v2"), and the forecast_stocks *)
(* table with UNIQUE(forecast_date, symbol, method).                        *)

(* pd.to_datetime(ts).date(): the calendar day of a timestamp *)
date(ts) == ts \div TicksPerDay

(* pd.notna(x) *)
notna(x) == x.kind \notin {"nan", "none"}

Key(rec) == <<rec.forecast_date, rec.symbol, rec.method>>

(* v1, lines 85-95: forecast_date is the day of the run.  A forecast_day  *)
(* of -1 stands for None.                                                  *)
RecordV1(row, columns, method, today) ==
    [forecast_date |-> today,
     symbol |-> row.symbol,
     method |-> method,
     predicted_close |-> row.predicted_close,
     price_change |-> IF "price_change" \in columns THEN row.price_change ELSE None,
     price_change_pct |->
         IF "price_change_pct" \in columns THEN row.price_change_pct ELSE None,
     forecast_day |-> IF "forecast_day" \in columns THEN row.forecast_day ELSE -1,
     lower_bound |-> IF "lower_bound" \in columns THEN row.lower_bound ELSE None,
     upper_bound |-> IF "upper_bound" \in columns THEN row.upper_bound ELSE None]

(* v2, lines 50-60: forecast_date is the day of the forecast point; the    *)
(* bounds are not part of the record                                       *)
RecordV2(row, columns, method, today) ==
    [forecast_date |-> date(row.timestamp),
     symbol |-> row.symbol,
     method |-> method,
     predicted_close |-> row.predicted_close,
     price_change |->
         IF "price_change" \in columns /\ notna(row.price_change)
         THEN row.price_change ELSE None,
     price_change_pct |->
         IF "price_change_pct" \in columns /\ notna(row.price_change_pct)
         THEN row.price_change_pct ELSE None,
     forecast_day |-> IF "forecast_day" \in columns THEN row.forecast_day ELSE -1,
     lower_bound |-> None,
     upper_bound |-> None]

BuildRecords(df, method, version, today) ==
    [i \in 1..Len(df.rows) |->
        IF version = "v1" THEN RecordV1(df.rows[i], df.columns, method, today)
        ELSE RecordV2(df.rows[i], df.columns, method, today)]

(* A stored row: the record and the id the table's BIGSERIAL gave it *)
NextId(table) ==
    IF table = {} THEN 1
    ELSE 1 + (CHOOSE m \in {t.id : t \in table} : \A t \in table : t.id <= m)

(* A value as a DECIMAL(p, 2) column keeps it: rounded to two places, the  *)
(* half away from zero; null stays null                                    *)
Decimal(x) ==
    IF x.kind # "fin" THEN x
    ELSE Fin(Sign(x) * ((200 * Abs(x.n) + x.d) \div (2 * x.d)), 100)

(* The row the table keeps for a record, setup_forecast_table.py 36-43 *)
Row(rec) ==
    [rec EXCEPT !.predicted_close = Decimal(@), !.price_change = Decimal(@),
                !.price_change_pct = Decimal(@), !.lower_bound = Decimal(@),
                !.upper_bound = Decimal(@)]

Stored(batch, table) ==
    {[id |-> NextId(table) + i - 1, rec |-> Row(batch[i])] : i \in 1..Len(batch)}

Contents(table) == {t.rec : t \in table}

ConflictsUnchecked(table, batch) == FALSE

(* The store rejects an insert statement as a whole when one of its rows   *)
(* repeats a key of the table or of another row of the statement.          *)
Conflicts(table, batch) ==
    \/ \E i \in 1..Len(batch) : \E t \in table : Key(t.rec) = Key(batch[i])
    \/ \E i, j \in 1..Len(batch) : i # j /\ Key(batch[i]) = Key(batch[j])

AcceptedAnyError(error, size) == size

(* except Exception as e, lines 72-78 of v2 and 107-113 of v1: what a      *)
(* failed batch adds to total_inserted.  The text of a duplicate-key error *)
(* holds "duplicate" and "unique"; that of an unreachable store neither.   *)
Accepted(error, size) == IF error = "duplicate" THEN size ELSE 0

(* One pass of the loop over batches, lines 65-78 of v2 and 100-113 of v1. *)
(* unreachable: the batch numbers on which the request fails otherwise.    *)
(* attempts: the insert requests made; raised: an exception left the call. *)
RECURSIVE InsertBatches(_, _, _, _, _, _)
InsertBatches(table, records, batch_size, unreachable, number, total_inserted) ==
    IF records = <<>>
    THEN [table |-> table, count |-> total_inserted, attempts |-> number - 1,
          raised |-> FALSE]
    ELSE
    LET size  == IF Len(records) < batch_size THEN Len(records) ELSE batch_size
        batch == SubSeq(records, 1, size)
        rest  == SubSeq(records, size + 1, Len(records))
    IN  IF number \in unreachable
        THEN InsertBatches(table, rest, batch_size, unreachable, number + 1,
                           total_inserted + Accepted("unreachable", size))
        ELSE IF Conflicts(table, batch)
        THEN InsertBatches(table, rest, batch_size, unreachable, number + 1,
                           total_inserted + Accepted("duplicate", size))
        ELSE InsertBatches(table \cup Stored(batch, table), rest, batch_size, unreachable,
                           number + 1, total_inserted + size)

insert_forecast_data(table, df, method, batch_size, version, today, unreachable) ==
    IF IsEmpty(df) THEN [table |-> table, count |-> 0, attempts |-> 0, raised |-> FALSE]
    ELSE InsertBatches(table, BuildRecords(df, method, version, today),
                       batch_size, unreachable, 1, 0)

DeleteLte(table, cutoff_date) ==
    {t \in table : ~(t.rec.forecast_date <= cutoff_date)}

(* supabase.table(TABLE_NAME).delete().lt("forecast_date", cutoff_date):   *)
(* the rows that remain                                                    *)
DeleteLt(table, cutoff_date) ==
    {t \in table : ~(t.rec.forecast_date < cutoff_date)}

(* The statements inside the try block of clear_old_forecasts.  today: the *)
(* day of datetime.now(); fault: the delete request fails.                 *)
ClearBody(table, days, today, fault) ==
    LET cutoff_date == today - days
    IN  IF fault = "request" THEN [exc |-> TRUE, table |-> table]
        ELSE [exc |-> FALSE, table |-> DeleteLt(table, cutoff_date)]

(* try: ... / except Exception as e: print(...) *)
clear_old_forecasts(table, days, today, fault) ==
    LET body == ClearBody(table, days, today, fault)
    IN  [table |-> body.table, raised |-> FALSE, failed |-> body.exc]

----------------------------------------------------------------------------
(* Harness of the sink: the table holds nothing or what an earlier clean   *)
(* run left there; one forecast is stored, and then stored once more.      *)

(* The forecast of one symbol whose last bar is at `last`, as a strategy   *)
(* returns it                                                              *)
ResultRows(sym, last, days) ==
    [k \in 1..days |->
        AddChange(Point(last + timedelta(k), sym, Whole(k + 1), k, None, None), Whole(1))]

SinkFrames ==
    { [columns |-> PlainColumns, rows |-> rows] :
        rows \in UNION { { ResultRows("AAPL", last, MaxDays),
                           ResultRows("AAPL", last, MaxDays)
                              \o ResultRows("GOOG", last, MaxDays) } :
                         last \in 0..TicksPerDay } }

(* The forecast of one symbol as arima and prophet return it, with the     *)
(* interval of the fitted model                                            *)
IntervalRows(sym, last, days, lib) ==
    [k \in 1..days |->
        AddChange(Point(last + timedelta(k), sym, LibMean(lib, k), k,
                        LibLower(lib, k), LibUpper(lib, k)), Whole(1))]

IntervalFrames ==
    { [columns |-> BoundColumns,
       rows |-> IntervalRows("AAPL", 0, MaxDays, [base |-> MaxClose, drift |-> 1])] }

(* The method whose strategy returns frames of these columns *)
MethodOf(df) == IF "lower_bound" \in df.columns THEN "arima" ELSE "linear"

BatchCount(n, batch_size) == (n + batch_size - 1) \div batch_size

Outages(n) == {o \in {{}, {1}, {2}, 1..n} : o \subseteq 1..n}

SinkInit ==
    /\ \E prior \in SinkFrames \cup {EmptyDF} :
          forecast_stocks =
             insert_forecast_data({}, prior, "linear", MaxBatch, "v2", 0, {}).table
    /\ sink = <<>> /\ cleared = <<>>
    /\ IdleStrategy /\ IdleLoad /\ IdleOrch

StoreCall(df, method, batch_size, version, today, unreachable) ==
    LET r == insert_forecast_data(forecast_stocks, df, method, batch_size, version,
                                  today, unreachable)
    IN  /\ forecast_stocks' = r.table
        /\ cleared' = cleared
        /\ sink' = Append(sink,
              [df |-> df, method |-> method, batch_size |-> batch_size,
               version |-> version, today |-> today, unreachable |-> unreachable,
               records |-> BuildRecords(df, method, version, today),
               before |-> forecast_stocks, count |-> r.count,
               attempts |-> r.attempts, raised |-> r.raised])

Store ==
    /\ sink = <<>> /\ cleared = <<>>
    /\ \E df \in SinkFrames \cup IntervalFrames, batch_size \in 1..MaxBatch,
          version \in {"v1", "v2"}, today \in 0..MaxToday :
          /\ version = "v2" => today = 0
          /\ \E unreachable \in Outages(BatchCount(Len(df.rows), batch_size)) :
                StoreCall(df, MethodOf(df), batch_size, version, today, unreachable)
    /\ UNCHANGED <<stratVars, loadVars, orchVars>>

(* The same call once more: same frame, method, batch_size and day *)
StoreAgain ==
    /\ Len(sink) = 1
    /\ LET c == sink[1]
       IN  \E unreachable \in Outages(BatchCount(Len(c.df.rows), c.batch_size)) :
              StoreCall(c.df, c.method, c.batch_size, c.version, c.today, unreachable)
    /\ UNCHANGED <<stratVars, loadVars, orchVars>>

(* The days on which old forecasts are cleared *)
ClearDays == 0..(MaxToday + MaxDays + 1)

(* One call of clear_old_forecasts on the table as the earlier run left it *)
ClearOldForecasts ==
    /\ sink = <<>> /\ cleared = <<>>
    /\ \E days \in 0..MaxDays, today \in ClearDays, fault \in {"none", "request"} :
          \E r \in {clear_old_forecasts(forecast_stocks, days, today, fault)} :
             /\ forecast_stocks' = r.table
             /\ cleared' = <<[days |-> days, today |-> today, fault |-> fault,
                              before |-> forecast_stocks, after |-> r.table,
                              raised |-> r.raised]>>
    /\ UNCHANGED <<sink, stratVars, loadVars, orchVars>>

SinkNext == Store \/ StoreAgain \/ ClearOldForecasts

SpecSink == SinkInit /\ [][SinkNext]_vars

----------------------------------------------------------------------------
C7_DistinctKeys ==
    Len(sink) >= 1 =>
       \A i, j \in 1..Len(sink[1].records) :
          (i # j /\ sink[1].records[i].symbol = sink[1].records[j].symbol)
             => Key(sink[1].records[i]) # Key(sink[1].records[j])

(* C8: for the same rows and the same table, the rows of the table after   *)
(* insert_forecast_data and the count it returns are the same for every    *)
(* batch_size >= 1.                                                        *)
C8_BatchSizeIrrelevant ==
    (Len(sink) = 1 /\ sink[1].unreachable = {}) =>
       \A b \in 1..MaxBatch :
          LET c == sink[1]
              r == insert_forecast_data(c.before, c.df, c.method, b, c.version,
                                        c.today, {})
          IN  /\ Contents(r.table) = Contents(forecast_stocks)
              /\ r.count = c.count

(* Rows of batch number b when n records go out in batches of batch_size *)
BatchLen(n, batch_size, b) ==
    IF b * batch_size <= n THEN batch_size ELSE n - (b - 1) * batch_size

(* C13: when a batch insert fails with an error that is no duplicate-key   *)
(* conflict (the store is unreachable), insert_forecast_data raises        *)
(* nothing, adds 0 to its count for the batch and still attempts the       *)
(* batches that follow; when every batch fails so it returns 0.            *)
C13_OtherErrorsCountNothing ==
    \A k \in 1..Len(sink) :
       LET c == sink[k]
           n == BatchCount(Len(c.records), c.batch_size)
           reached == (1..n) \ c.unreachable
       IN  /\ ~c.raised
           /\ c.attempts = n
           /\ c.count = SumTo([b \in 1..n |->
                                 IF b \in reached
                                 THEN BatchLen(Len(c.records), c.batch_size, b) ELSE 0], n)
           /\ reached = {} => c.count = 0
           /\ (reached = {} /\ k = Len(sink)) => forecast_stocks = c.before

C13_Witness ==
    /\ Len(sink) = 1
    /\ sink[1].version = "v2"
    /\ sink[1].batch_size = 1
    /\ Len(sink[1].records) = 4
    /\ sink[1].unreachable = {2}
    /\ sink[1].before = {}
    /\ sink[1].attempts = 4
    /\ sink[1].count = 3
    /\ Cardinality(forecast_stocks) = 3

(* C27: the count returned by insert_forecast_data never exceeds the       *)
(* number of rows of its input that are in the table when it returns,      *)
(* inserted by the call or there before it.                                *)
C27_CountedRowsAreStored ==
    Len(sink) >= 1 =>
       LET c == sink[Len(sink)]
       IN  c.count <= Cardinality({i \in 1..Len(c.records) :
                                     \E t \in forecast_stocks :
                                        Key(t.rec) = Key(c.records[i])})

(* C29: every field of a forecast point that is present in the input of    *)
(* insert_forecast_data is carried into the stored row with the same       *)
(* value; the lower_bound and upper_bound of arima and prophet results are *)
(* stored, and are null only for methods that produce no bounds.           *)
C29_FieldsCarried ==
    Len(sink) >= 1 =>
       LET c == sink[Len(sink)]
       IN  \A i \in 1..Len(c.records) :
           \A t \in forecast_stocks \ c.before :
              \* t is the row stored for point i
              (Key(t.rec) = Key(c.records[i])
                 /\ t.rec.forecast_day = c.df.rows[i].forecast_day) =>
                 LET row == c.df.rows[i]
                 IN  /\ t.rec.symbol = row.symbol
                     /\ t.rec.predicted_close = row.predicted_close
                     /\ t.rec.price_change = row.price_change
                     /\ t.rec.price_change_pct = row.price_change_pct
                     /\ "lower_bound" \in c.df.columns
                           => /\ t.rec.lower_bound = row.lower_bound
                              /\ t.rec.upper_bound = row.upper_bound
                     /\ (t.rec.lower_bound = None \/ t.rec.upper_bound = None)
                           => c.method \in {"linear", "moving_average"}

(* C25: clear_old_forecasts(days) deletes exactly the rows whose           *)
(* forecast_date is strictly earlier than today minus `days` days and      *)
(* leaves every other row unchanged; when the delete request fails it      *)
(* raises nothing and the table is unchanged.                              *)
C25_ClearsStrictlyOlder ==
    cleared # <<>> =>
       LET c == cleared[1]
       IN  /\ ~c.raised
           /\ c.fault = "none" =>
                 /\ c.after \subseteq c.before
                 /\ \A t \in c.before :
                       t \notin c.after <=> t.rec.forecast_date + c.days < c.today
           /\ c.fault # "none" => c.after = c.before

C25_Witness ==
    /\ cleared # <<>>
    /\ cleared[1].fault = "none"
    /\ cleared[1].days = 1
    /\ cleared[1].after # cleared[1].before
    /\ \E t \in cleared[1].after : t.rec.forecast_date = cleared[1].today - 1
    /\ \E t \in cleared[1].before : t.rec.forecast_date = cleared[1].today - 2
    /\ forecast_stocks = cleared[1].after

----------------------------------------------------------------------------
(* The loader: fetch_historical_data.  A row of stock_prices carries its   *)
(* timestamp as text, <<day, tick of the day>>; pd.to_datetime parses it.  *)

to_datetime(text) == text[1] * TicksPerDay + text[2]

(* supabase.table("stock_prices").select("*").eq("symbol", symbol) *)
SelectEq(table, symbol) == SelectSeq(table, LAMBDA row : row.symbol = symbol)

(* The statements inside the try block, lines 42-58.  fault: the request   *)
(* fails ("query"), or the response cannot be parsed or sorted ("parse").  *)
FetchBody(table, symbol, days, fault) ==
    IF fault = "query" THEN Raise
    ELSE
    LET data == SelectEq(table, symbol)
    IN  IF data = <<>> THEN Value(EmptyDF)
        ELSE IF fault = "parse" THEN Raise
        ELSE Value(tail(sort_values(
                    [columns |-> BarColumns,
                     rows |-> [i \in 1..Len(data) |->
                                 Bar(to_datetime(data[i].timestamp), data[i].symbol,
                                     data[i].close)]]),
                  days))

fetch_historical_dataUnguarded(table, symbol, days, fault) ==
    TryExceptLeaks(FetchBody(table, symbol, days, fault))

(* try: ... return df / except Exception: return pd.DataFrame() *)
fetch_historical_data(table, symbol, days, fault) ==
    TryExcept(FetchBody(table, symbol, days, fault))

----------------------------------------------------------------------------
(* Harness of the loader: a stock_prices table in any storage order, and   *)
(* one fetch from it.                                                      *)

LoaderSymbols == {"AAPL", "GOOG"}

BarIds == LoaderSymbols \X (1..MaxBars)

Injective(s) == \A i, j \in 1..Len(s) : i # j => s[i] # s[j]

LoaderTables ==
    { [i \in 1..Len(ids) |->
          [timestamp |-> <<ids[i][2], 0>>, symbol |-> ids[i][1],
           close |-> i % (MaxClose + 1)]] :
      ids \in { s \in UNION {[1..n -> BarIds] : n \in 0..MaxBars} : Injective(s) } }

LoaderInit ==
    /\ stock_prices \in LoaderTables
    /\ loaded = <<>> /\ IdleDump
    /\ IdleStrategy /\ IdleSink /\ IdleOrch

Fetch ==
    /\ loaded = <<>>
    /\ \E symbol \in LoaderSymbols \cup {"TCS.NS"}, days \in 0..MaxBars,
          fault \in {"none", "query", "parse"} :
          LET r == fetch_historical_data(stock_prices, symbol, days, fault)
          IN  loaded' = <<[symbol |-> symbol, days |-> days, fault |-> fault,
                           df |-> r.df, raised |-> r.raised]>>
    /\ UNCHANGED <<stock_prices, dumpVars, stratVars, sinkVars, orchVars>>

(* The bars the table holds for a symbol, timestamps parsed *)
BarsOf(table, symbol) ==
    { Bar(to_datetime(table[i].timestamp), table[i].symbol, table[i].close) :
        i \in {j \in 1..Len(table) : table[j].symbol = symbol} }

(* C10: fetch_historical_data(symbol, days) returns the bars of the symbol *)
(* sorted ascending by timestamp, cut to the min(days, n) latest of the n  *)
(* available.                                                              *)
C10_SortedLastDays ==
    (Len(loaded) = 1 /\ loaded[1].fault = "none") =>
       LET rows == loaded[1].df.rows
           bars == BarsOf(stock_prices, loaded[1].symbol)
           n    == Cardinality(bars)
       IN  /\ Range(rows) \subseteq bars
           /\ \A i \in 1..(Len(rows) - 1) : rows[i].timestamp < rows[i + 1].timestamp
           /\ Len(rows) = IF loaded[1].days < n THEN loaded[1].days ELSE n
           /\ \A b \in bars \ Range(rows) :
                 \A r \in Range(rows) : b.timestamp < r.timestamp

C10_Witness ==
    /\ Len(loaded) = 1
    /\ loaded[1].fault = "none"
    /\ loaded[1].symbol = "AAPL"
    /\ loaded[1].days = 2
    /\ Cardinality(BarsOf(stock_prices, "AAPL")) = 3
    /\ stock_prices[1].timestamp[1] > stock_prices[2].timestamp[1]
    /\ Len(loaded[1].df.rows) = 2

(* C11: fetch_historical_data never raises to its caller; when the store   *)
(* holds no row of the symbol, or the query or the parsing of the response *)
(* fails, it returns an empty series.                                      *)
C11_FetchNeverRaises ==
    Len(loaded) = 1 =>
       /\ ~loaded[1].raised
       /\ (\/ loaded[1].fault \in {"query", "parse"}
           \/ BarsOf(stock_prices, loaded[1].symbol) = {})
             => loaded[1].df = EmptyDF

C11_Witness ==
    /\ Len(loaded) = 1
    /\ loaded[1].fault = "parse"
    /\ loaded[1].days = 2
    /\ Cardinality(BarsOf(stock_prices, loaded[1].symbol)) = 2
    /\ loaded[1].df = EmptyDF
    /\ ~loaded[1].raised

----------------------------------------------------------------------------
(* generate_forecast and the main block of stock_price_forecast.py         *)

generate_forecastFetchRaises(table, symbol, days, method, fetch_fault, fault, lib, arima_available, prophet_available) ==
    LET df == fetch_historical_data(table, symbol, LookbackDays, fetch_fault).df
    IN  IF fetch_fault # "none" THEN [df |-> EmptyDF, raised |-> TRUE, why |-> "raised"]
        ELSE IF IsEmpty(df) THEN Return(EmptyDF, "nodata")
        ELSE IF method = "linear"
             THEN forecast_linear_regression(df, symbol, days, fault)
        ELSE IF method = "moving_average"
             THEN forecast_moving_average(df, symbol, days, fault)
        ELSE IF method = "arima"
             THEN forecast_arima(df, symbol, days, fault, lib, arima_available)
        ELSE IF method = "prophet"
             THEN forecast_prophet(df, symbol, days, fault, lib, prophet_available)
        ELSE Return(EmptyDF, "unknown")

generate_forecastDefaultsToLinear(table, symbol, days, method, fetch_fault, fault, lib, arima_available, prophet_available) ==
    LET fetched == fetch_historical_data(table, symbol, LookbackDays, fetch_fault)
        df      == fetched.df
    IN  IF fetched.raised THEN [df |-> EmptyDF, raised |-> TRUE, why |-> "raised"]
        ELSE IF IsEmpty(df) THEN Return(EmptyDF, "nodata")
        ELSE IF method = "moving_average"
             THEN forecast_moving_average(df, symbol, days, fault)
        ELSE IF method = "arima"
             THEN forecast_arima(df, symbol, days, fault, lib, arima_available)
        ELSE IF method = "prophet"
             THEN forecast_prophet(df, symbol, days, fault, lib, prophet_available)
        ELSE forecast_linear_regression(df, symbol, days, fault)

generate_forecast(table, symbol, days, method, fetch_fault, fault, lib, arima_available, prophet_available) ==
    LET fetched == fetch_historical_data(table, symbol, LookbackDays, fetch_fault)
        df      == fetched.df
    IN  \* an exception of the fetch would leave generate_forecast too
        IF fetched.raised THEN [df |-> EmptyDF, raised |-> TRUE, why |-> "raised"]
        ELSE IF IsEmpty(df) THEN Return(EmptyDF, "nodata")
        ELSE IF method = "linear"
             THEN forecast_linear_regression(df, symbol, days, fault)
        ELSE IF method = "moving_average"
             THEN forecast_moving_average(df, symbol, days, fault)
        ELSE IF method = "arima"
             THEN forecast_arima(df, symbol, days, fault, lib, arima_available)
        ELSE IF method = "prophet"
             THEN forecast_prophet(df, symbol, days, fault, lib, prophet_available)
        ELSE Return(EmptyDF, "unknown")

(* Harness of generate_forecast: one call on the table of the loader       *)
(* harness, with a method name that is one of the four or not.             *)
MethodNames == {"linear", "moving_average", "arima", "prophet", "lstm", ""}

GenerateForecast ==
    /\ loaded = <<>> /\ call.method = "idle"
    /\ \E symbol \in LoaderSymbols \cup {"TCS.NS"}, method \in MethodNames,
          fetch_fault \in {"none", "query"}, available \in BOOLEAN :
          LET fetched == fetch_historical_data(stock_prices, symbol, LookbackDays,
                                               fetch_fault)
          IN  /\ call' = [method |-> method, symbol |-> symbol, days |-> Horizon,
                          fault |-> fetch_fault, lib |-> NoCall.lib,
                          available |-> available]
              /\ ret' = generate_forecast(stock_prices, symbol, Horizon, method,
                                          fetch_fault, "none", NoCall.lib,
                                          available, available)
              /\ loaded' = <<[symbol |-> symbol, days |-> LookbackDays,
                              fault |-> fetch_fault, df |-> fetched.df,
                              raised |-> fetched.raised]>>
    /\ UNCHANGED <<stock_prices, dumpVars, sinkVars, orchVars>>

LoaderNext == Fetch \/ GenerateForecast

SpecLoader == LoaderInit /\ [][LoaderNext]_vars

(* The return statements of the four strategies *)
StrategyReturns == {"short", "unavailable", "caught", "ok"}

(* C30: generate_forecast called with a method name other than linear,     *)
(* moving_average, arima or prophet returns an empty result without        *)
(* invoking a strategy and without raising; when the loader returns an     *)
(* empty series it returns an empty result without invoking a strategy,    *)
(* whatever the method.                                                    *)
C30_UnknownMethodOrNoData ==
    (call.method # "idle" /\ Len(loaded) = 1) =>
       /\ call.method \notin {"linear", "moving_average", "arima", "prophet"}
             => /\ IsEmpty(ret.df)
                /\ ~ret.raised
                /\ ret.why \notin StrategyReturns
       /\ IsEmpty(loaded[1].df)
             => /\ IsEmpty(ret.df)
                /\ ret.why \notin StrategyReturns

C30_Witness ==
    /\ call.method = "lstm"
    /\ Len(loaded) = 1
    /\ Len(loaded[1].df.rows) = MaxBars
    /\ IsEmpty(ret.df)
    /\ ~ret.raised
    /\ ret.why = "unknown"

TICKERSRepeated == <<"RELIANCE.NS", "TCS.NS", "HDFCBANK.NS", "INFY.NS", "AAPL", "AAPL">>

TICKERS == <<"RELIANCE.NS", "TCS.NS", "HDFCBANK.NS", "INFY.NS", "AAPL", "GOOG">>

(* METHODS = ["linear", "moving_average"], plus arima and prophet when     *)
(* their import succeeded                                                  *)
MethodsAll(arima_available, prophet_available) ==
    <<"linear", "moving_average", "arima", "prophet">>

Methods(arima_available, prophet_available) ==
    <<"linear", "moving_average">>
       \o (IF arima_available THEN <<"arima">> ELSE <<>>)
       \o (IF prophet_available THEN <<"prophet">> ELSE <<>>)

METHODS == Methods(ARIMA_AVAILABLE, PROPHET_AVAILABLE)

Cells == {<<METHODS[m], TICKERS[t]>> : m \in 1..Len(METHODS), t \in 1..Len(TICKERS)}

(* The stock_prices table of a run: ticker number t holds                  *)
(* lens[((t + shift) % 3) + 1] daily bars, newest first in storage.        *)
OrchLens == <<0, MinLinear - 1, MaxLen>>

OrchPattern == [i \in 1..Period |-> 1 + (i % (MaxClose + 1))]

RECURSIVE Flatten(_)
Flatten(ss) == IF ss = <<>> THEN <<>> ELSE Head(ss) \o Flatten(Tail(ss))

OrchTable(shift) ==
    Flatten([t \in 1..Len(TICKERS) |->
        LET rows == Reverse(SeriesRows(OrchLens[((t + shift) % 3) + 1], OrchPattern,
                                       TICKERS[t]))
        IN  [i \in 1..Len(rows) |->
                [timestamp |-> <<rows[i].timestamp \div TicksPerDay, 0>>,
                 symbol |-> rows[i].symbol, close |-> rows[i].close]]])

----------------------------------------------------------------------------
(* The CSV files.  DataFrame.to_csv(index=False) writes a timestamp as     *)
(* text and None and NaN as the empty field; pd.read_csv reads the empty   *)
(* field as NaN and leaves a timestamp as text.                            *)

CsvField(x) == IF x.kind \in {"none", "nan"} THEN [kind |-> "empty", n |-> 0, d |-> 0] ELSE x

ParseField(x) == IF x.kind = "empty" THEN NaN ELSE x

to_csv(df) ==
    [columns |-> df.columns,
     rows |-> [i \in 1..Len(df.rows) |->
        [df.rows[i] EXCEPT
           !.timestamp = <<@ \div TicksPerDay, @ % TicksPerDay>>,
           !.predicted_close = CsvField(@), !.price_change = CsvField(@),
           !.price_change_pct = CsvField(@), !.lower_bound = CsvField(@),
           !.upper_bound = CsvField(@)]]]

read_csv(file) ==
    [columns |-> file.columns,
     rows |-> [i \in 1..Len(file.rows) |->
        [file.rows[i] EXCEPT
           !.predicted_close = ParseField(@), !.price_change = ParseField(@),
           !.price_change_pct = ParseField(@), !.lower_bound = ParseField(@),
           !.upper_bound = ParseField(@)]]]

(* pd.to_datetime on the timestamp of every row *)
ParseTimestamps(df) ==
    [df EXCEPT !.rows = [i \in 1..Len(df.rows) |->
                            [df.rows[i] EXCEPT !.timestamp = to_datetime(@)]]]

(* pd.concat(frames, ignore_index=True) *)
concat(frames) ==
    [columns |-> UNION {frames[i].columns : i \in 1..Len(frames)},
     rows |-> Flatten([i \in 1..Len(frames) |-> frames[i].rows])]

----------------------------------------------------------------------------
(* Process start: the imports and the configuration check that each of the *)
(* three scripts runs before anything else.                                *)

Programs == {"stock_price_forecast", "store_forecasts_to_supabase",
             "store_forecasts_to_supabase_v2"}

EnvNames == {"SUPABASE_URL", "SUPABASE_API_KEY"}

ConfigMissingBoth(e) == "SUPABASE_URL" \notin e /\ "SUPABASE_API_KEY" \notin e

(* if not SUPABASE_URL or not SUPABASE_KEY *)
ConfigMissing(e) == "SUPABASE_URL" \notin e \/ "SUPABASE_API_KEY" \notin e

(* The combined files an earlier run may have left on disk *)
PriorFiles ==
    { <<>>,
      [m \in {"linear", "moving_average"} |->
          to_csv([columns |-> PlainColumns, rows |-> ResultRows("AAPL", 0, MaxDays)])] }

runVars   == <<mi, ti, all_forecasts, visited, crashed, faults, written, outcome>>
setupVars == <<ARIMA_AVAILABLE, PROPHET_AVAILABLE, library, program, env>>

OrchInit ==
    /\ pc = "start" /\ mi = 1 /\ ti = 1
    /\ program \in Programs
    /\ env \in SUBSET EnvNames
    /\ files \in PriorFiles
    /\ IF program = "stock_price_forecast"
       THEN /\ ARIMA_AVAILABLE \in BOOLEAN
            /\ PROPHET_AVAILABLE \in BOOLEAN
            /\ library = [base |-> MaxClose, drift |-> 1]
            /\ stock_prices \in {OrchTable(shift) : shift \in 0..2} \cup {<<>>}
       ELSE /\ ARIMA_AVAILABLE = TRUE
            /\ PROPHET_AVAILABLE = TRUE
            /\ library = NoCall.lib
            /\ stock_prices = <<>>
    /\ all_forecasts = [m \in {"linear"} |-> <<>>]
    /\ visited = {} /\ crashed = FALSE /\ faults = 0
    /\ written = {} /\ outcome = {} /\ events = <<>>
    /\ loaded = <<>> /\ IdleDump
    /\ IdleStrategy /\ IdleSink

(* Module level, up to the creation of the client: lines 31-37 of          *)
(* stock_price_forecast.py, 11-17 and 16-22 of the storage scripts.        *)
Startup ==
    /\ pc = "start"
    /\ pc' = IF ConfigMissing(env) THEN "EnvironmentError"
             ELSE IF program = "stock_price_forecast" THEN "loop"
             ELSE "store"
    /\ UNCHANGED <<runVars, setupVars, files, events, stratVars, sinkVars, loadVars>>

Event(kind, method, what) == [kind |-> kind, cell |-> <<method, what>>]

CollectAlways(forecasts, method, forecast) ==
    [forecasts EXCEPT ![method] = Append(@, forecast)]

CollectLast(forecasts, method, forecast) ==
    IF IsEmpty(forecast) THEN forecasts
    ELSE [forecasts EXCEPT ![method] = <<forecast>>]

(* if not forecast.empty: all_forecasts[method].append(forecast) *)
Collect(forecasts, method, forecast) ==
    IF IsEmpty(forecast) THEN forecasts
    ELSE [forecasts EXCEPT ![method] = Append(@, forecast)]

(* Lines 368-372: the combined file of the method is written when the      *)
(* method has a forecast; to_csv opens the file for writing.               *)
SaveCombined(forecasts, method) ==
    IF forecasts[method] # <<>>
    THEN /\ files' = [m \in DOMAIN files \cup {method} |->
                         IF m = method THEN to_csv(concat(forecasts[method]))
                         ELSE files[m]]
         /\ written' = written \cup {method}
    ELSE UNCHANGED <<files, written>>

(* One pass of the inner loop, lines 356-366, and, after the last ticker,  *)
(* the end of the outer pass, lines 368-372, and the start of the next     *)
(* one, line 354.                                                          *)
Advance(forecasts) ==
    IF ti < Len(TICKERS)
    THEN /\ ti' = ti + 1 /\ mi' = mi /\ pc' = pc
         /\ all_forecasts' = forecasts
         /\ UNCHANGED <<files, written>>
    ELSE /\ SaveCombined(forecasts, METHODS[mi])
         /\ IF mi < Len(METHODS)
            THEN /\ ti' = 1 /\ mi' = mi + 1 /\ pc' = pc
                 /\ all_forecasts' =
                       [m \in DOMAIN forecasts \cup {METHODS[mi + 1]} |->
                           IF m = METHODS[mi + 1] THEN <<>> ELSE forecasts[m]]
            ELSE /\ ti' = ti /\ mi' = mi /\ pc' = "summary"
                 /\ all_forecasts' = forecasts

GenerateCell ==
    /\ pc = "loop"
    /\ \E fetch_fault \in {"none", "query"}, fault \in {"none", "prepare", "fit"} :
          LET method == METHODS[mi]
              ticker == TICKERS[ti]
              n      == (IF fetch_fault = "none" THEN 0 ELSE 1)
                           + (IF fault = "none" THEN 0 ELSE 1)
          IN  \E r \in {generate_forecast(stock_prices, ticker, Horizon, method,
                                          fetch_fault, fault, library,
                                          ARIMA_AVAILABLE, PROPHET_AVAILABLE)} :
              \* a fault is one that strikes a statement the cell executes
              /\ fetch_fault # "none" => fault = "none"
              /\ fault # "none" => r.why \in {"caught", "raised"}
              /\ faults + n <= MaxFaults
              /\ faults' = faults + n
              /\ visited' = visited \cup {<<method, ticker>>}
              /\ outcome' = outcome \cup
                    {[cell |-> <<method, ticker>>, empty |-> IsEmpty(r.df)]}
              /\ events' = events \o <<Event("fetch", method, ticker)>>
                    \o (IF r.why \in {"nodata", "raised"} THEN <<>>
                        ELSE <<Event("call", method, ticker),
                               Event("return", method, ticker)>>)
              /\ IF r.raised
                 THEN /\ crashed' = TRUE /\ pc' = "crashed"
                      /\ UNCHANGED <<mi, ti, all_forecasts, files, written>>
                 ELSE /\ crashed' = crashed
                      /\ Advance(Collect(all_forecasts, method, r.df))
    /\ UNCHANGED <<setupVars, stratVars, sinkVars, loadVars>>

(* The comparison summary and the closing messages, lines 374-409 *)
Summary ==
    /\ pc = "summary"
    /\ pc' = "done"
    /\ UNCHANGED <<runVars, setupVars, files, events, stratVars, sinkVars, loadVars>>

----------------------------------------------------------------------------
(* store_all_forecasts of the two storage scripts *)

StoreMethods == <<"linear", "moving_average", "arima", "prophet">>

Version(prog) == IF prog = "store_forecasts_to_supabase" THEN "v1" ELSE "v2"

(* The default of the parameter batch_size *)
DefaultBatchSize(version) == IF version = "v1" THEN 100 ELSE 50

(* The loop over the methods: a method without a file is passed over; the  *)
(* file of a method is read and handed to insert_forecast_data.  down: the *)
(* table store is unreachable during the run.                              *)
RECURSIVE StoreFiles(_, _, _, _, _, _)
StoreFiles(methods, disk, table, version, today, down) ==
    IF methods = <<>> THEN [table |-> table, total |-> 0, events |-> <<>>]
    ELSE
    LET method == Head(methods)
    IN  IF method \notin DOMAIN disk
        THEN StoreFiles(Tail(methods), disk, table, version, today, down)
        ELSE
        LET df   == ParseTimestamps(read_csv(disk[method]))
            size == DefaultBatchSize(version)
            n    == BatchCount(Len(df.rows), size)
            r    == insert_forecast_data(table, df, method, size, version, today,
                                         IF down THEN 1..n ELSE {})
            rest == StoreFiles(Tail(methods), disk, r.table, version, today, down)
        IN  [table |-> rest.table, total |-> r.count + rest.total,
             events |-> [i \in 1..n |-> Event("insert", method, "batch")]
                           \o rest.events]

StoreAllForecasts ==
    /\ pc = "store"
    /\ \E today \in 0..MaxToday, down \in BOOLEAN :
          /\ Version(program) = "v2" => today = 0
          /\ LET r == StoreFiles(StoreMethods, files, forecast_stocks,
                                 Version(program), today, down)
             IN  /\ forecast_stocks' = r.table
                 /\ events' = events \o r.events
    /\ pc' = "done"
    /\ UNCHANGED <<runVars, setupVars, files, sink, cleared, stratVars, loadVars>>

(* A storage script is started once the forecast script has ended: a new  *)
(* process, with the files and the tables as the run left them.  written,  *)
(* outcome and all_forecasts go on showing what that run produced.         *)
Launch ==
    /\ program = "stock_price_forecast" /\ pc = "done"
    /\ program' \in Programs \ {"stock_price_forecast"}
    /\ pc' = "start"
    /\ mi' = 1 /\ ti' = 1 /\ visited' = {} /\ faults' = 0 /\ events' = <<>>
    /\ UNCHANGED <<env, files, written, outcome, all_forecasts, crashed,
                   ARIMA_AVAILABLE, PROPHET_AVAILABLE, library,
                   stratVars, sinkVars, loadVars>>

Next == Startup \/ GenerateCell \/ Summary \/ StoreAllForecasts \/ Launch

Spec == OrchInit /\ [][Next]_vars

(* Steps the run still has to take *)
Remaining ==
    IF pc \in {"done", "EnvironmentError"} THEN 0
    ELSE IF pc \in {"summary", "store"} THEN 1
    ELSE IF pc = "start" THEN 2 + Len(METHODS) * Len(TICKERS)
    ELSE 2 + (Len(METHODS) - mi) * Len(TICKERS) + (Len(TICKERS) - ti)

(* The cells the loops have passed when they stand at method mi, ticker ti *)
CellsBefore ==
    IF pc = "start" THEN {}
    ELSE
    {<<METHODS[m], TICKERS[t]>> :
        m \in 1..Len(METHODS), t \in 1..Len(TICKERS)} \
    (IF pc = "loop"
     THEN {<<METHODS[m], TICKERS[t]>> :
              m \in mi..Len(METHODS),
              t \in 1..Len(TICKERS)} \
          {<<METHODS[mi], TICKERS[t]>> : t \in 1..(ti - 1)}
     ELSE {})

(* C5: a run over the symbol x method matrix always reaches its end and    *)
(* visits every (method, symbol) cell, whatever the outcome of each cell   *)
(* (no data, fetch error, too few bars, fit failure, success): no          *)
(* exception leaves the loop, the cells are visited in turn, every step    *)
(* brings the end nearer, and at the end every cell has been visited.      *)
C5_RunCompletes ==
    /\ []((program = "stock_price_forecast" /\ EnvNames \subseteq env) =>
            /\ ~crashed
            /\ pc \in {"start", "loop", "summary", "done"}
            /\ visited = CellsBefore
            /\ pc \in {"summary", "done"} => visited = Cells)
    /\ [][program' = program => Remaining' < Remaining]_vars

C5_Witness ==
    /\ pc = "done"
    /\ visited = Cells
    /\ faults = 1
    /\ Len(METHODS) = 4
    /\ Len(all_forecasts["linear"]) = 1
    /\ Len(all_forecasts["moving_average"]) = 2
    /\ Len(all_forecasts["arima"]) = 2

(* The symbol a forecast is for *)
SymbolOf(df) == df.rows[1].symbol

(* generate_forecast for a cell when no fault strikes it *)
Unfaulted(method, ticker) ==
    generate_forecast(stock_prices, ticker, Horizon, method, "none", "none", library,
                      ARIMA_AVAILABLE, PROPHET_AVAILABLE).df

(* C12: the aggregate of a method, and the combined table built from it,   *)
(* holds rows only of symbols whose result for the method is not empty: a  *)
(* symbol without data or with too few bars for the method adds no row and *)
(* no null row, and the run goes on.                                       *)
C12_AggregateOmitsEmpty ==
    /\ ~crashed
    /\ \A m \in DOMAIN all_forecasts :
          /\ \A i \in 1..Len(all_forecasts[m]) :
                LET df == all_forecasts[m][i]
                IN  /\ ~IsEmpty(df)
                    /\ [cell |-> <<m, SymbolOf(df)>>, empty |-> FALSE] \in outcome
                    /\ \A k \in 1..Len(df.rows) :
                          /\ df.rows[k].symbol = SymbolOf(df)
                          /\ df.rows[k].predicted_close.kind = "fin"
          /\ \A o \in outcome :
                (o.cell[1] = m /\ o.empty) =>
                   \A r \in Range(concat(all_forecasts[m]).rows) : r.symbol # o.cell[2]
          /\ m \in written =>
                files[m] = to_csv(concat(all_forecasts[m]))
    /\ \A c \in visited :
          Cardinality(BarsOf(stock_prices, c[2])) < C3_Minimum(c[1])
             => [cell |-> c, empty |-> TRUE] \in outcome

C12_Witness ==
    /\ pc = "done"
    /\ faults = 0
    /\ BarsOf(stock_prices, "GOOG") = {}
    /\ Cardinality(BarsOf(stock_prices, "RELIANCE.NS")) = MinLinear - 1
    /\ Cardinality(BarsOf(stock_prices, "AAPL")) = MaxLen
    /\ "arima" \in written
    /\ Len(all_forecasts["linear"]) = 2
    /\ Len(files["arima"].rows) = 2 * Horizon

(* C14: with SUPABASE_URL or SUPABASE_API_KEY missing, each of the three   *)
(* scripts stops with an EnvironmentError at process start, before any     *)
(* fetch, any strategy invocation and any insert.                          *)
C14_ConfigCheckedFirst ==
    /\ [](pc = "start" => events = <<>> /\ visited = {})
    /\ []((~({"SUPABASE_URL", "SUPABASE_API_KEY"} \subseteq env)) =>
             /\ pc \in {"start", "EnvironmentError"}
             /\ events = <<>>
             /\ visited = {}
             /\ forecast_stocks = {})
    /\ [][(~({"SUPABASE_URL", "SUPABASE_API_KEY"} \subseteq env) /\ pc = "start")
             => pc' = "EnvironmentError"]_vars

C14_Witness ==
    /\ pc = "EnvironmentError"
    /\ env = {"SUPABASE_URL"}
    /\ program = "store_forecasts_to_supabase_v2"
    /\ "linear" \in DOMAIN files
    /\ events = <<>>

(* C15: the methods of a run are fixed at startup: linear and              *)
(* moving_average, plus arima and prophet exactly when their import        *)
(* succeeded; a method whose library is absent is run for no symbol and    *)
(* writes no per-method file in the run.                                   *)
C15_Allowed ==
    {"linear", "moving_average"}
       \cup (IF ARIMA_AVAILABLE THEN {"arima"} ELSE {})
       \cup (IF PROPHET_AVAILABLE THEN {"prophet"} ELSE {})

C15_MethodsFixedAtStartup ==
    /\ [](/\ {c[1] : c \in visited} \subseteq C15_Allowed
          /\ written \subseteq C15_Allowed
          /\ \A i \in 1..Len(events) :
                events[i].kind \in {"fetch", "call", "return"}
                   => events[i].cell[1] \in C15_Allowed
          /\ (program = "stock_price_forecast" /\ pc \in {"summary", "done"})
                => {c[1] : c \in visited} = C15_Allowed)
    /\ [][/\ ARIMA_AVAILABLE' = ARIMA_AVAILABLE
          /\ PROPHET_AVAILABLE' = PROPHET_AVAILABLE]_vars

C15_Witness ==
    /\ pc = "done"
    /\ ~ARIMA_AVAILABLE
    /\ PROPHET_AVAILABLE
    /\ written = {"linear", "moving_average", "prophet"}
    /\ Cardinality(visited) = 3 * Len(TICKERS)

(* C16: after a run the combined file of each method holds exactly the     *)
(* forecast rows the run produced for the method and nothing of an earlier *)
(* run.                                                                    *)
C16_CombinedFileIsFresh ==
    (program = "stock_price_forecast" /\ pc = "done") =>
       \A i \in 1..Len(METHODS) :
          LET m == METHODS[i]
          IN  IF all_forecasts[m] # <<>>
              THEN m \in DOMAIN files /\ files[m] = to_csv(concat(all_forecasts[m]))
              ELSE m \notin DOMAIN files \/ files[m].rows = <<>>

C20_OnePairAtATime ==
    /\ \A i, j \in 1..Len(events) :
          (i # j /\ events[i].kind = "call" /\ events[j].kind = "call")
             => events[i].cell # events[j].cell
    /\ \A i \in 1..Len(events) :
          /\ events[i].kind = "call" =>
                /\ i < Len(events)
                /\ events[i + 1] = [kind |-> "return", cell |-> events[i].cell]
          /\ events[i].kind = "return" =>
                /\ i > 1
                /\ events[i - 1].kind = "call"
    /\ \A m \in DOMAIN all_forecasts :
          \A i, j \in 1..Len(all_forecasts[m]) :
             i # j => SymbolOf(all_forecasts[m][i]) # SymbolOf(all_forecasts[m][j])

C20_Witness ==
    /\ pc = "done"
    /\ Len(METHODS) = 4
    /\ Len(all_forecasts["linear"]) = 2
    /\ Len(all_forecasts["arima"]) = 2
    /\ Len(SelectSeq(events, LAMBDA e : e.kind = "call")) = 4 * 4

(* C28: store_all_forecasts run after an orchestrator run stores only rows *)
(* which that run produced: for a method that produced no result in the    *)
(* run no row of an earlier run's forecast_all_stocks_{method}.csv is sent *)
(* to the table.                                                           *)
C28_StoresOnlyLatestRun ==
    (program \in {"store_forecasts_to_supabase", "store_forecasts_to_supabase_v2"}
       /\ outcome # {} /\ pc = "done") =>
       /\ \A i \in 1..Len(events) :
             events[i].kind = "insert" => events[i].cell[1] \in written
       /\ \A t \in forecast_stocks : t.rec.method \in written

----------------------------------------------------------------------------
(* fix_supabase_data.py: a script of four steps run at module level.       *)

(* Step 1, lines 24-49: the records of the linear and the moving_average   *)
(* file, in that order.  A record has the fields of the v2 record.         *)
FixRecords(disk) ==
    Flatten([i \in 1..2 |->
        LET method == <<"linear", "moving_average">>[i]
        IN  IF method \notin DOMAIN disk THEN <<>>
            ELSE BuildRecords(ParseTimestamps(read_csv(disk[method])), method, "v2", 0)])

FixBatchSize == 50

(* Step 3, lines 70-93: the loop over the batches follows the check of     *)
(* step 2 unconditionally                                                  *)
FixInsert(table, records, unreachable) ==
    InsertBatches(table, records, FixBatchSize, unreachable, 1, 0)

(* The files on disk and the rows of the table when the script starts *)
FixFiles ==
    { <<>> } \cup
    { [m \in ms |-> to_csv(df)] :
        ms \in {{"linear"}, {"moving_average"}, {"linear", "moving_average"}},
        df \in SinkFrames }

FixTables ==
    { insert_forecast_data({}, prior, "linear", MaxBatch, "v2", 0, {}).table :
        prior \in SinkFrames \cup {EmptyDF} }

FixInit ==
    /\ program = "fix_supabase_data" /\ pc = "step1"
    /\ env = EnvNames
    /\ files \in FixFiles
    /\ forecast_stocks \in FixTables
    /\ sink = <<>> /\ cleared = <<>> /\ events = <<>>
    /\ mi = 0 /\ ti = 0 /\ all_forecasts = <<>>
    /\ visited = {} /\ crashed = FALSE /\ faults = 0
    /\ ARIMA_AVAILABLE = TRUE /\ PROPHET_AVAILABLE = TRUE
    /\ library = NoCall.lib /\ written = {} /\ outcome = {}
    /\ IdleStrategy /\ IdleLoad

(* Steps 1 and 2, lines 21-65: the records are prepared and the rows of    *)
(* the table are counted; existing_count stays unbound (-1) when the       *)
(* select fails.                                                           *)
FixCheck ==
    /\ program = "fix_supabase_data" /\ pc = "step1"
    /\ \E fault \in {"none", "query"} :
          sink' = <<[records |-> FixRecords(files),
                     existing_count |-> IF fault = "none"
                                        THEN Cardinality(forecast_stocks) ELSE -1,
                     before |-> forecast_stocks,
                     count |-> 0, attempts |-> 0, raised |-> FALSE]>>
    /\ events' = Append(events, Event("select", "fix", "step2"))
    /\ pc' = "step3"
    /\ UNCHANGED <<forecast_stocks, cleared, runVars, setupVars, files, stratVars,
                   loadVars>>

(* Step 3, lines 67-99 *)
FixInsertStep ==
    /\ program = "fix_supabase_data" /\ pc = "step3"
    /\ LET n == BatchCount(Len(sink[1].records), FixBatchSize)
       IN  \E unreachable \in Outages(n) :
           \E r \in {FixInsert(forecast_stocks, sink[1].records, unreachable)} :
              /\ forecast_stocks' = r.table
              /\ sink' = <<[sink[1] EXCEPT !.count = r.count, !.attempts = r.attempts,
                                           !.raised = r.raised]>>
              /\ events' = events \o [i \in 1..r.attempts |->
                                         Event("insert", "fix", "batch")]
    /\ pc' = "step4"
    /\ UNCHANGED <<cleared, runVars, setupVars, files, stratVars, loadVars>>

(* Step 4, lines 101-129: the rows are read back and shown *)
FixVerify ==
    /\ program = "fix_supabase_data" /\ pc = "step4"
    /\ events' = Append(events, Event("select", "fix", "step4"))
    /\ pc' = "done"
    /\ UNCHANGED <<sinkVars, runVars, setupVars, files, stratVars, loadVars>>

FixNext == FixCheck \/ FixInsertStep \/ FixVerify

SpecFix == FixInit /\ [][FixNext]_vars

(* C24: when forecast_stocks holds at least one record at the moment the   *)
(* fix script checks it, the script makes no insert request and the rows   *)
(* of the table are the same after the script as before it.                *)
C24_NonEmptyTableSkipsInsert ==
    (program = "fix_supabase_data" /\ pc \in {"step4", "done"}
       /\ sink[1].existing_count > 0) =>
       /\ sink[1].attempts = 0
       /\ \A i \in 1..Len(events) : events[i].kind # "insert"
       /\ forecast_stocks = sink[1].before

----------------------------------------------------------------------------
(* dump_daily_data of daily_supabase_dump.py and of dailyStockDump.py: one *)
(* pass over TICKERS per run, one CSV file per ticker in daily_stock_data. *)

MaxRuns   == 2    \* runs of dump_daily_data
MaxMisses == 2    \* downloads, writes and inserts that fail or bring nothing

DumpPrograms == {"daily_supabase_dump", "dailyStockDump"}

(* os.path.join(DATA_DIR, f"{ticker.replace('.', '_')}.csv") *)
Filename(ticker) ==
    CASE ticker = "RELIANCE.NS" -> "RELIANCE_NS.csv"
      [] ticker = "TCS.NS"      -> "TCS_NS.csv"
      [] ticker = "HDFCBANK.NS" -> "HDFCBANK_NS.csv"
      [] ticker = "INFY.NS"     -> "INFY_NS.csv"
      [] ticker = "AAPL"        -> "AAPL.csv"
      [] ticker = "GOOG"        -> "GOOG.csv"

(* The lines of a CSV file: the header, and the bar of a day *)
HeaderLine == [kind |-> "header", day |-> 0, close |-> 0]

DataLine(day, close) == [kind |-> "data", day |-> day, close |-> close]

(* What yf.download(ticker, period="1d") of a day brings when it brings    *)
(* anything: the bar of the day                                            *)
Downloaded(day) == <<DataLine(day, 1 + (day % (MaxClose + 1)))>>

(* Line 84 of daily_supabase_dump.py: os.path.exists(filename) and         *)
(* os.path.getsize(filename) > 0; line 37 of dailyStockDump.py:            *)
(* os.path.exists(filename)                                                *)
Appends(prog, folder, filename) ==
    IF prog = "daily_supabase_dump"
    THEN filename \in DOMAIN folder /\ folder[filename] # <<>>
    ELSE filename \in DOMAIN folder

(* The file after df.to_csv(filename, mode='a', header=False) or           *)
(* df.to_csv(filename).  broken: the write fails once the file is open.    *)
WriteCsv(prog, folder, filename, df, broken) ==
    [f \in DOMAIN folder \cup {filename} |->
        IF f # filename THEN folder[f]
        ELSE IF Appends(prog, folder, filename)
             THEN (IF broken THEN folder[f] ELSE folder[f] \o df)
             ELSE (IF broken THEN <<>> ELSE <<HeaderLine>> \o df)]

(* The row prepared for the table from the last bar of the download *)
TableRow(ticker, day, df) ==
    [timestamp |-> <<day, 0>>, symbol |-> ticker, close |-> df[Len(df)].close]

DownloadOutcomes == {"rows", "empty", "fail", "write"}

DumpInit ==
    /\ program \in DumpPrograms /\ pc = "dump"
    /\ env = EnvNames \cup {"SUPABASE_TABLE"}
    /\ daily_stock_data = <<>> /\ all_rows = <<>> /\ downloads = <<>>
    /\ stock_prices = <<>> /\ loaded = <<>>
    /\ files = <<>> /\ events = <<>>
    /\ mi = 0 /\ ti = 0 /\ all_forecasts = <<>>
    /\ visited = {} /\ crashed = FALSE /\ faults = 0
    /\ ARIMA_AVAILABLE = TRUE /\ PROPHET_AVAILABLE = TRUE
    /\ library = NoCall.lib /\ written = {} /\ outcome = {}
    /\ IdleStrategy /\ IdleSink

(* The run and the ticker the loop stands at *)
DumpRun    == (Len(downloads) \div Len(TICKERS)) + 1
DumpTicker == TICKERS[(Len(downloads) % Len(TICKERS)) + 1]

Misses == Cardinality({i \in 1..Len(downloads) : downloads[i] # "rows"}) + faults

(* insert_to_supabase(all_rows), lines 44-65: the rows are posted to the   *)
(* table; a failure of the request is printed                              *)
insert_to_supabase(table, rows, down) == IF down THEN table ELSE table \o rows

(* One pass of the loop over TICKERS, lines 73-108 and 26-45, and after    *)
(* the last ticker the end of the run, lines 110-113 and 47.               *)
DumpOne ==
    /\ program \in DumpPrograms /\ pc = "dump"
    /\ DumpRun <= MaxRuns
    /\ \E result \in DownloadOutcomes, down \in BOOLEAN :
          LET ticker   == DumpTicker
              filename == Filename(ticker)
              df       == Downloaded(DumpRun)
              miss     == (IF result = "rows" THEN 0 ELSE 1) + (IF down THEN 1 ELSE 0)
              last     == Len(downloads) % Len(TICKERS) = Len(TICKERS) - 1
              rows     == IF result = "rows" /\ program = "daily_supabase_dump"
                          THEN Append(all_rows, TableRow(ticker, DumpRun, df))
                          ELSE all_rows
          IN  /\ Misses + miss <= MaxMisses
              \* the request is made at the end of a run that prepared rows
              /\ down => last /\ rows # <<>>
              /\ downloads' = Append(downloads, result)
              /\ faults' = faults + (IF down THEN 1 ELSE 0)
              /\ daily_stock_data' =
                    IF result \in {"rows", "write"}
                    THEN WriteCsv(program, daily_stock_data, filename, df,
                                  result = "write")
                    ELSE daily_stock_data
              /\ IF last
                 THEN /\ all_rows' = <<>>
                      /\ stock_prices' = IF rows = <<>> THEN stock_prices
                                         ELSE insert_to_supabase(stock_prices, rows, down)
                      /\ events' = IF rows = <<>> THEN events
                                   ELSE Append(events, Event("insert", "dump", DumpRun))
                 ELSE /\ all_rows' = rows
                      /\ UNCHANGED <<stock_prices, events>>
    /\ UNCHANGED <<pc, mi, ti, all_forecasts, visited, crashed, written, outcome,
                   setupVars, files, loaded, stratVars, sinkVars>>

DumpNext == DumpOne

SpecDump == DumpInit /\ [][DumpNext]_vars

(* The runs, in order, in which the download of the ticker was not empty   *)
(* and its write went through                                              *)
RunsWritten(ticker) ==
    LET t == CHOOSE i \in 1..Len(TICKERS) : TICKERS[i] = ticker
    IN  SelectSeq([r \in 1..MaxRuns |-> r],
                  LAMBDA r : /\ (r - 1) * Len(TICKERS) + t <= Len(downloads)
                             /\ downloads[(r - 1) * Len(TICKERS) + t] = "rows")

(* C26: after any sequence of dump_daily_data runs the CSV file of each    *)
(* ticker starts with exactly one header and holds one data block per run  *)
(* in which the download of the ticker was not empty, in run order; a file *)
(* that exists but is empty gets the header on the next write; a ticker    *)
(* whose download fails or is empty leaves its file unchanged and does not *)
(* stop the other tickers.                                                 *)
C26_OneHeaderThenBlocks ==
    program \in DumpPrograms =>
       \A i \in 1..Len(TICKERS) :
          LET ticker == TICKERS[i]
              runs   == RunsWritten(ticker)
              file   == daily_stock_data[Filename(ticker)]
          IN  /\ runs = <<>> =>
                    (Filename(ticker) \in DOMAIN daily_stock_data => file = <<>>)
              /\ runs # <<>> =>
                    /\ Filename(ticker) \in DOMAIN daily_stock_data
                    /\ file = <<HeaderLine>>
                                \o Flatten([k \in 1..Len(runs) |-> Downloaded(runs[k])])

====
